---- MODULE Spec2Model ----
\* A model of app/core/backtest_engine.py: run_backtest, one invocation.
\* Money is counted in hundredths of a currency unit (integers); ratios such
\* as total_return are exact fractions [num, den].
EXTENDS Integers, Sequences, FiniteSets, TLC

VARIABLES
    pc,               \* position of the invocation inside run_backtest
    df,               \* the caller's price series (DataFrame or None)
    strategy_type,    \* the caller's strategy identifier
    strategy_params,  \* the caller's parameter mapping
    initial_cash,     \* in hundredths
    commission,       \* in percent
    adjusted_params,  \* the private copy that is clamped
    error,            \* the exception that left run_backtest, if any
    result,           \* the dictionary run_backtest returned, if any
    broker,           \* cerebro.broker: [cash]
    position,         \* the open position: [size, entry_bar, entry_price, stop_price]
    bar,              \* number of bars replayed so far
    trades_list,      \* strategy_instance.trades_list
    daily_positions,  \* strategy_instance.daily_positions
    entries,          \* number of positions opened so far
    faults,           \* which failures happened inside the try blocks
    signal,           \* the signal of the last bar replayed
    call              \* a direct call of a helper: [op, args, out, done]

vars == <<pc, df, strategy_type, strategy_params, initial_cash, commission,
          adjusted_params, error, result, broker, position, bar,
          trades_list, daily_positions, entries, faults, signal, call>>

\* ---------------------------------------------------------------- bounds

MaxRows == 6          \* longest series that is replayed bar by bar
MaxReq == 7           \* requested parameter values 0..MaxReq are all tried
MaxAdjRows == 16      \* series lengths 4..MaxAdjRows are all tried by the adjuster
CashUnits == 1000     \* the positive initial cash tried, in currency units
BasePrice == 10       \* the first close of a generated series

MaxShares == 3        \* equities of 0..MaxShares times one share's risk are all sized
MaxPrice == 2         \* prices and stops 0..MaxPrice are all sized
MaxCurve == 4         \* equity curves of up to MaxCurve points are all measured
MaxEquity == 3        \* with equities 1..MaxEquity
MaxReturns == 3       \* return series of up to MaxReturns returns are all measured
MaxReturn == 2        \* with returns -1..MaxReturn

\* further requested values and series lengths, around the defaults
ProbeReqs == {-3, 14, 20, 21, 49, 50, 51, 60, 61}
ProbeRows == {30, 59, 60, 61, 62, 63, 119, 120, 121, 122, 150, 152, 153, 200}
ReqValues == (0..MaxReq) \cup ProbeReqs
AtrReqs == {1, 20}

\* ------------------------------------------------------------- constants

MinRows == 5
DefaultSlow == 50
DefaultFast == 20
DefaultAtr == 14
DefaultEntry == 20
DefaultExit == 10
DefaultLookback == 60

\* --------------------------------------------------------------- helpers

Min(a, b) == IF a <= b THEN a ELSE b
Max(a, b) == IF a >= b THEN a ELSE b
Abs(a) == IF a >= 0 THEN a ELSE -a

\* Python's int(a / b) for b # 0: truncation toward zero
IntTrunc(a, b) ==
    LET q == Abs(a) \div Abs(b)
    IN  IF (a >= 0) = (b > 0) THEN q ELSE -q

\* dict.get(key, default)
Get(d, key, default) == IF key \in DOMAIN d THEN d[key] ELSE default

\* dict with d[key] = value
Put(d, key, value) ==
    [k \in (DOMAIN d) \cup {key} |-> IF k = key THEN value ELSE d[k]]

\* exact fractions
Rat(n, d) == [num |-> n, den |-> d]
RatEq(a, b) ==
    /\ a.den # 0
    /\ b.den # 0
    /\ IF a.den = b.den THEN a.num = b.num ELSE a.num * b.den = b.num * a.den
RatLeqZero(a) == a.den # 0 /\ ((a.den > 0 /\ a.num <= 0) \/ (a.den < 0 /\ a.num >= 0))

\* ------------------------------------------------------------ the inputs

STRATEGY_MAP == {"sma_cross", "donchian_breakout", "momentum"}
StrategyIds == STRATEGY_MAP \cup {"invalid_strategy", "SMA_Cross"}

required_columns == <<"Open", "High", "Low", "Close", "Volume">>
AllColumns == {required_columns[i] : i \in 1..Len(required_columns)}
ColumnSets == {AllColumns, AllColumns \ {"Volume"}, {"Open", "Close"}, {}}

SteadyPrice == 100
Shapes == {"rising", "falling", "zigzag", "steady"}

DataFrame(rows, columns, shape) ==
    [none |-> FALSE, rows |-> rows, columns |-> columns, shape |-> shape]
NoneFrame == [none |-> TRUE, rows |-> 0, columns |-> {}, shape |-> "rising"]

\* the close of bar i (1-based) of a series of the given shape
Close(shape, i) ==
    CASE shape = "rising" -> BasePrice + i
      [] shape = "falling" -> BasePrice + MaxRows + 2 - i
      [] shape = "steady" -> SteadyPrice
      [] OTHER -> BasePrice + 2 * (i % 2)

NoError == [exc |-> "", msg |-> "", arg |-> <<>>]
ValueError(msg, arg) == [exc |-> "ValueError", msg |-> msg, arg |-> arg]
ZeroDivisionError == [exc |-> "ZeroDivisionError", msg |-> "float division by zero", arg |-> <<>>]

\* ------------------------------------------------- run_backtest, lines 33-44

\* df.empty: no rows or no columns
Empty(d) == d.rows = 0 \/ d.columns = {}

missing_columns(d) == SelectSeq(required_columns, LAMBDA col : col \notin d.columns)

\* the row count checked before the columns
ValidationErrorOf_RowsFirst(d) ==
    IF d.none \/ Empty(d)
    THEN ValueError("DataFrame is empty", <<>>)
    ELSE IF d.rows < MinRows
    THEN ValueError("DataFrame must have at least 5 rows for backtest", <<>>)
    ELSE IF missing_columns(d) # <<>>
    THEN ValueError("Missing required columns", missing_columns(d))
    ELSE NoError

\* the error the input checks raise, NoError when they all pass
ValidationErrorOf(d) ==
    IF d.none \/ Empty(d)
    THEN ValueError("DataFrame is empty", <<>>)
    ELSE IF missing_columns(d) # <<>>
    THEN ValueError("Missing required columns", missing_columns(d))
    ELSE IF d.rows < MinRows
    THEN ValueError("DataFrame must have at least 5 rows for backtest", <<>>)
    ELSE NoError

\* ------------------------------------------------- run_backtest, lines 46-86

\* fast capped at slow instead of slow - 1
AdjustSmaCross_FastUpToSlow(params, data_len) ==
    LET max_slow == Min(Get(params, "slow", DefaultSlow), data_len \div 3)
        max_fast == Min(Get(params, "fast", DefaultFast), max_slow)
        p1 == Put(params, "slow", Max(3, max_slow))
        p2 == Put(p1, "fast", Max(2, max_fast))
    IN  Put(p2, "atr_period",
            Min(Get(p2, "atr_period", DefaultAtr), Max(2, data_len \div 4)))

AdjustSmaCross(params, data_len) ==
    LET max_slow == Min(Get(params, "slow", DefaultSlow), data_len \div 3)
        max_fast == Min(Get(params, "fast", DefaultFast), max_slow - 1)
        p1 == Put(params, "slow", Max(3, max_slow))
        p2 == Put(p1, "fast", Max(2, max_fast))
    IN  Put(p2, "atr_period",
            Min(Get(p2, "atr_period", DefaultAtr), Max(2, data_len \div 4)))

\* the caps without their floor of 2
AdjustDonchian_NoCapFloor(params, data_len) ==
    LET p1 == Put(params, "entry_period",
                  Min(Get(params, "entry_period", DefaultEntry), data_len \div 3))
        p2 == Put(p1, "exit_period",
                  Min(Get(p1, "exit_period", DefaultExit), data_len \div 4))
    IN  Put(p2, "atr_period",
            Min(Get(p2, "atr_period", DefaultAtr), Max(2, data_len \div 4)))

AdjustDonchian(params, data_len) ==
    LET p1 == Put(params, "entry_period",
                  Min(Get(params, "entry_period", DefaultEntry), Max(2, data_len \div 3)))
        p2 == Put(p1, "exit_period",
                  Min(Get(p1, "exit_period", DefaultExit), Max(2, data_len \div 4)))
    IN  Put(p2, "atr_period",
            Min(Get(p2, "atr_period", DefaultAtr), Max(2, data_len \div 4)))

\* the cap without its floor of 5
AdjustMomentum_NoCapFloor(params, data_len) ==
    LET p1 == Put(params, "lookback",
                  Min(Get(params, "lookback", DefaultLookback), data_len \div 2))
    IN  Put(p1, "atr_period",
            Min(Get(p1, "atr_period", DefaultAtr), Max(2, data_len \div 4)))

\* the lookback capped by the whole length instead of half of it
AdjustMomentum_WholeLength(params, data_len) ==
    LET p1 == Put(params, "lookback",
                  Min(Get(params, "lookback", DefaultLookback), Max(5, data_len)))
    IN  Put(p1, "atr_period",
            Min(Get(p1, "atr_period", DefaultAtr), Max(2, data_len \div 4)))

AdjustMomentum(params, data_len) ==
    LET p1 == Put(params, "lookback",
                  Min(Get(params, "lookback", DefaultLookback), Max(5, data_len \div 2)))
    IN  Put(p1, "atr_period",
            Min(Get(p1, "atr_period", DefaultAtr), Max(2, data_len \div 4)))

\* the if/elif chain on strategy_type; any other identifier leaves the copy alone
AdjustParams(type, params, data_len) ==
    CASE type = "sma_cross" -> AdjustSmaCross(params, data_len)
      [] type = "donchian_breakout" -> AdjustDonchian(params, data_len)
      [] type = "momentum" -> AdjustMomentum(params, data_len)
      [] OTHER -> params

\* ------------------------------------------------------ the broker and sizer

Flat == [size |-> 0, entry_bar |-> 0, entry_price |-> 0, stop_price |-> 0]

\* the cash alone
getvalue_CashOnly(cash, size, close) == cash

\* cerebro.broker.getvalue(): cash plus the open position at the last close
getvalue(cash, size, close) == cash + size * close * 100

\* the size by risk alone, without the affordability limit
calculate_position_size_RiskOnly(value, cash, price, stop_price) ==
    LET risk_per_share == Abs(price - stop_price)
    IN  IF risk_per_share = 0 THEN 0
        ELSE IF price = 0 THEN 0
        ELSE IntTrunc(value, 10000 * risk_per_share)

\* calculate_position_size: value and cash in hundredths, prices in units
calculate_position_size(value, cash, price, stop_price) ==
    LET risk_per_share == Abs(price - stop_price)
    IN  IF risk_per_share = 0 THEN 0
        ELSE IF price = 0 THEN 0    \* ZeroDivisionError, caught: return 0
        ELSE Min(IntTrunc(value, 10000 * risk_per_share), IntTrunc(cash, 100 * price))

\* ------------------------------------------------------ float values

None == [kind |-> "None", value |-> 0]
Float(v) == [kind |-> "float", value |-> v]
NaN == [kind |-> "nan", value |-> 0]
PosInf == [kind |-> "inf", value |-> 0]
NegInf == [kind |-> "-inf", value |-> 0]

\* ------------------------------------------------------ app.utils.metrics

RatLess(a, b) == a.num * b.den < b.num * a.den      \* for positive denominators

NoValue == [none |-> TRUE, value |-> Rat(0, 1)]
Value(r) == [none |-> FALSE, value |-> r]

\* the points that are not NaN, in order
Valid(series) == SelectSeq(series, LAMBDA e : e.kind = "float")

\* the deepest drawdown measured from the first point instead of the running peak
RECURSIVE DeepestFrom_FirstPeak(_, _, _)
DeepestFrom_FirstPeak(points, peak, worst) ==
    IF points = <<>> THEN worst
    ELSE LET drawdown == Rat(Head(points).value - peak, peak)
         IN  DeepestFrom_FirstPeak(Tail(points), peak,
                                   IF RatLess(drawdown, worst) THEN drawdown ELSE worst)

\* one pass over the curve: the running peak and the deepest drawdown so far
RECURSIVE DeepestFrom(_, _, _)
DeepestFrom(points, peak, worst) ==
    IF points = <<>> THEN worst
    ELSE LET new_peak == Max(peak, Head(points).value)
             drawdown == Rat(Head(points).value - new_peak, new_peak)
         IN  DeepestFrom(Tail(points), new_peak,
                         IF RatLess(drawdown, worst) THEN drawdown ELSE worst)

max_drawdown_FirstPeak(equity) ==
    LET points == Valid(equity)
    IN  IF points = <<>> THEN NoValue
        ELSE Value(DeepestFrom_FirstPeak(points, Head(points).value, Rat(0, 1)))

\* max_drawdown(equity): None for an empty curve, NaN points skipped
max_drawdown(equity) ==
    LET points == Valid(equity)
    IN  IF points = <<>> THEN NoValue
        ELSE Value(DeepestFrom(points, Head(points).value, Rat(0, 1)))

\* the points that are not NaN, in order (dropna keeps infinities)
NotNaN(series) == SelectSeq(series, LAMBDA e : e.kind # "nan")

RECURSIVE Sum(_)
Sum(points) == IF points = <<>> THEN 0 ELSE Head(points).value + Sum(Tail(points))

RECURSIVE SumSq(_)
SumSq(points) ==
    IF points = <<>> THEN 0
    ELSE Head(points).value * Head(points).value + SumSq(Tail(points))

Sign(x) == IF x > 0 THEN 1 ELSE IF x < 0 THEN -1 ELSE 0

\* n * (n - 1) times the sample variance of the points
Spread(points) == Len(points) * SumSq(points) - Sum(points) * Sum(points)

periods == 252

\* mean / stdev * sqrt(periods) at risk-free rate 0, as its sign and its square;
\* NaN when a return is infinite (inf - inf in the deviations)
Ratio(points) ==
    IF \E i \in 1..Len(points) : points[i].kind # "float" THEN NaN
    ELSE [kind |-> "float", value |-> Sign(Sum(points)),
          square |-> Rat(periods * Sum(points) * Sum(points) * (Len(points) - 1),
                         Len(points) * Spread(points))]

\* sharpe_ratio(returns): None below 2 returns, at zero deviation, and for a
\* ratio that is NaN or infinite
sharpe_ratio(returns) ==
    LET points == NotNaN(returns)
    IN  IF Len(points) < 2 THEN None
        ELSE IF (\A i \in 1..Len(points) : points[i].kind = "float") /\ Spread(points) = 0
             THEN None
        ELSE IF Ratio(points).kind \in {"nan", "inf", "-inf"} THEN None
        ELSE Ratio(points)

\* ------------------------------------------------------ the bar replay

StopDists == {0, 1}
Hold == [kind |-> "Hold", stop |-> 0]
ExitLong == [kind |-> "ExitLong", stop |-> 0]
EnterLong(stop) == [kind |-> "EnterLong", stop |-> stop]
Signals(close) == {Hold, ExitLong} \cup {EnterLong(close - d) : d \in StopDists}

Trade(pos, exit_bar, exit_price) ==
    [entry_bar |-> pos.entry_bar, exit_bar |-> exit_bar,
     entry_price |-> pos.entry_price, exit_price |-> exit_price,
     size |-> pos.size, pnl |-> pos.size * (exit_price - pos.entry_price) * 100]

EquityPoint(i, cash, size, close) ==
    [bar |-> i, cash |-> cash, market_value |-> size * close * 100,
     equity |-> getvalue(cash, size, close)]

\* the SmaCross stop following the close down as well as up
TrailedStop_FollowsClose(type, pos, close, dist) ==
    IF type = "sma_cross" THEN close - dist ELSE pos.stop_price

\* the stop of an open position on a bar: SmaCross trails it below the close
\* and never lowers it, the other variants keep the stop of the entry
TrailedStop(type, pos, close, dist) ==
    IF type = "sma_cross" THEN Max(pos.stop_price, close - dist) ELSE pos.stop_price

\* an EnterLong received while Long adds one share to the open position
AfterSignal_AddsToPosition(type, cash, pos, sig, dist, i, close) ==
    IF pos.size = 0
    THEN LET qty == calculate_position_size(getvalue(cash, 0, close), cash, close, sig.stop)
         IN  IF sig.kind = "EnterLong" /\ qty > 0
             THEN [cash |-> cash - qty * close * (100 + commission),
                   pos |-> [size |-> qty, entry_bar |-> i, entry_price |-> close,
                            stop_price |-> sig.stop],
                   opened |-> 1, closed |-> <<>>]
             ELSE [cash |-> cash, pos |-> pos, opened |-> 0, closed |-> <<>>]
    ELSE LET stop == TrailedStop(type, pos, close, dist)
         IN  IF sig.kind = "ExitLong" \/ close <= stop
             THEN [cash |-> cash + pos.size * close * (100 - commission),
                   pos |-> Flat, opened |-> 0, closed |-> <<Trade(pos, i, close)>>]
             ELSE IF sig.kind = "EnterLong"
             THEN [cash |-> cash - close * (100 + commission),
                   pos |-> [pos EXCEPT !.stop_price = stop, !.size = pos.size + 1],
                   opened |-> 0, closed |-> <<>>]
             ELSE [cash |-> cash, pos |-> [pos EXCEPT !.stop_price = stop],
                   opened |-> 0, closed |-> <<>>]

\* the position and cash after the signal of one bar has been applied
AfterSignal(type, cash, pos, sig, dist, i, close) ==
    IF pos.size = 0
    THEN LET qty == calculate_position_size(getvalue(cash, 0, close), cash, close, sig.stop)
         IN  IF sig.kind = "EnterLong" /\ qty > 0
             THEN [cash |-> cash - qty * close * (100 + commission),
                   pos |-> [size |-> qty, entry_bar |-> i, entry_price |-> close,
                            stop_price |-> sig.stop],
                   opened |-> 1, closed |-> <<>>]
             ELSE [cash |-> cash, pos |-> pos, opened |-> 0, closed |-> <<>>]
    ELSE LET stop == TrailedStop(type, pos, close, dist)
         IN  IF sig.kind = "ExitLong" \/ close <= stop
             THEN [cash |-> cash + pos.size * close * (100 - commission),
                   pos |-> Flat, opened |-> 0, closed |-> <<Trade(pos, i, close)>>]
             ELSE [cash |-> cash, pos |-> [pos EXCEPT !.stop_price = stop],
                   opened |-> 0, closed |-> <<>>]

\* ------------------------------------------------------ the result

ResultKeys == {"final_cash", "total_return", "sharpe", "max_drawdown", "trades",
               "daily_positions", "win_rate", "avg_trade_return"}


NoResult == [k \in {} |-> 0]

\* the dictionary of lines 117-126
DegradedResult(cash) ==
    [final_cash |-> cash, total_return |-> Rat(0, 1), sharpe |-> None,
     max_drawdown |-> Rat(0, 1), trades |-> <<>>, daily_positions |-> <<>>,
     win_rate |-> Rat(0, 1), avg_trade_return |-> Rat(0, 1)]

\* what an analyzer hands to lines 131-170: it raises, or it reports
Raises == [ok |-> FALSE, value |-> None]
Reports(v) == [ok |-> TRUE, value |-> v]
SharpeAnalyses == {Raises} \cup {Reports(v) : v \in {None, NaN, PosInf, NegInf, Float(1)}}
DrawdownAnalyses == {Raises} \cup {Reports(Float(v)) : v \in {-5, 0, 25}}
TradeAnalyses == {Raises, Reports(None)}

\* the analyzer's value passed on as reported
ExtractSharpe_Unfiltered(analysis) ==
    IF ~analysis.ok THEN None
    ELSE analysis.value

\* lines 132-138
ExtractSharpe(analysis) ==
    IF ~analysis.ok THEN None
    ELSE IF analysis.value.kind \in {"nan", "inf", "-inf"} THEN None
    ELSE analysis.value

\* the reported percentage divided by 100 with its sign kept
ExtractDrawdown_SignKept(analysis) ==
    IF ~analysis.ok THEN Rat(0, 1)
    ELSE Rat(analysis.value.value, 100)

\* lines 140-148
ExtractDrawdown(analysis) ==
    IF ~analysis.ok THEN Rat(0, 1)
    ELSE IF analysis.value.value > 0 THEN Rat(-analysis.value.value, 100)
    ELSE Rat(analysis.value.value, 100)

RECURSIVE SumPnl(_)
SumPnl(trades) == IF trades = <<>> THEN 0 ELSE Head(trades).pnl + SumPnl(Tail(trades))

Won(trades) == SelectSeq(trades, LAMBDA t : t.pnl > 0)

\* lines 150-153: the TradeAnalyzer's report of the closed trades, {} when it raises
trades_analysis(analysis, trades) ==
    IF ~analysis.ok \/ trades = <<>> THEN [total |-> 0, won |-> 0, gross |-> Rat(0, 1)]
    ELSE [total |-> Len(trades), won |-> Len(Won(trades)),
          gross |-> Rat(SumPnl(trades), Len(trades))]

\* the return computed with the difference the wrong way round
NormalResult_Reversed(final_value, cash0, sharpe, drawdown, analysis, trades, curve) ==
    [final_cash |-> final_value,
     total_return |-> Rat(cash0 - final_value, cash0),
     sharpe |-> sharpe,
     max_drawdown |-> drawdown,
     trades |-> trades,
     daily_positions |-> curve,
     win_rate |-> IF analysis.total > 0
                  THEN Rat(analysis.won, Max(analysis.total, 1)) ELSE Rat(0, 1),
     avg_trade_return |-> analysis.gross]

\* win_rate as won trades over lost trades
NormalResult_WonOverLost(final_value, cash0, sharpe, drawdown, analysis, trades, curve) ==
    [final_cash |-> final_value,
     total_return |-> Rat(final_value - cash0, cash0),
     sharpe |-> sharpe,
     max_drawdown |-> drawdown,
     trades |-> trades,
     daily_positions |-> curve,
     win_rate |-> IF analysis.total > 0
                  THEN Rat(analysis.won, Max(analysis.total - analysis.won, 1))
                  ELSE Rat(0, 1),
     avg_trade_return |-> analysis.gross]

\* the result with a position still open at the end reported as a trade
NormalResult_ClosesAtEnd(final_value, cash0, sharpe, drawdown, analysis, trades, curve) ==
    [final_cash |-> final_value,
     total_return |-> Rat(final_value - cash0, cash0),
     sharpe |-> sharpe,
     max_drawdown |-> drawdown,
     trades |-> IF position.size > 0
                THEN Append(trades, Trade(position, bar, Close(df.shape, bar)))
                ELSE trades,
     daily_positions |-> curve,
     win_rate |-> IF analysis.total > 0
                  THEN Rat(analysis.won, Max(analysis.total, 1)) ELSE Rat(0, 1),
     avg_trade_return |-> analysis.gross]

\* lines 128-129 and 172-181
NormalResult(final_value, cash0, sharpe, drawdown, analysis, trades, curve) ==
    [final_cash |-> final_value,
     total_return |-> Rat(final_value - cash0, cash0),
     sharpe |-> sharpe,
     max_drawdown |-> drawdown,
     trades |-> trades,
     daily_positions |-> curve,
     win_rate |-> IF analysis.total > 0
                  THEN Rat(analysis.won, Max(analysis.total, 1)) ELSE Rat(0, 1),
     avg_trade_return |-> analysis.gross]

\* ------------------------------------------------------ the parameter maps

EmptyMap == [k \in {} |-> 0]
MapsOver(keys, values) == UNION {[ks -> values] : ks \in SUBSET keys}
Merge(a, b) == [k \in (DOMAIN a) \cup (DOMAIN b) |-> IF k \in DOMAIN a THEN a[k] ELSE b[k]]

\* every requested mapping tried for a strategy identifier
RequestedParams(type) ==
    CASE type = "sma_cross" ->
           {Merge(a, b) : a \in MapsOver({"slow", "fast"}, ReqValues),
                          b \in MapsOver({"atr_period"}, AtrReqs)}
      [] type = "donchian_breakout" ->
           {Merge(a, b) : a \in MapsOver({"entry_period", "exit_period"}, ReqValues),
                          b \in MapsOver({"atr_period"}, AtrReqs)}
      [] type = "momentum" ->
           {Merge(a, b) : a \in MapsOver({"lookback"}, ReqValues),
                          b \in MapsOver({"atr_period"}, AtrReqs)}
      [] OTHER -> {EmptyMap, [fast |-> 2, slow |-> 5]}

\* the mappings tried when the series is also replayed
ReplayedParams(type) ==
    CASE type = "sma_cross" -> {EmptyMap, [fast |-> 5, slow |-> 3]}
      [] type = "donchian_breakout" -> {EmptyMap, [entry_period |-> 1, exit_period |-> 1]}
      [] type = "momentum" -> {EmptyMap, [lookback |-> 2]}
      [] OTHER -> {EmptyMap, [fast |-> 2, slow |-> 5]}

\* ------------------------------------------------------ initial states

NoCall == [op |-> "none", args |-> <<>>, out |-> 0, done |-> FALSE]

Idle ==
    /\ adjusted_params = EmptyMap
    /\ error = NoError
    /\ result = NoResult
    /\ broker = [cash |-> 0]
    /\ position = Flat
    /\ bar = 0
    /\ trades_list = <<>>
    /\ daily_positions = <<>>
    /\ entries = 0
    /\ faults = {}
    /\ signal = Hold

Fresh ==
    /\ Idle
    /\ pc = "validate"
    /\ call = NoCall

Init ==
    /\ Fresh
    /\ df \in {NoneFrame}
              \cup {DataFrame(r, c, "rising") : r \in {0, 2, 4, MaxRows}, c \in ColumnSets}
              \cup {DataFrame(r, AllColumns, s) : r \in MinRows..MaxRows,
                                                  s \in Shapes \ {"steady"}}
              \cup {DataFrame(MinRows, AllColumns, "steady")}
    /\ strategy_type \in StrategyIds
    /\ strategy_params \in ReplayedParams(strategy_type)
    /\ initial_cash \in {-100 * CashUnits, 0, 100 * CashUnits}
    /\ commission \in {0, 5}

InitAdjust ==
    /\ Fresh
    /\ df \in {DataFrame(r, AllColumns, "rising") : r \in (4..MaxAdjRows) \cup ProbeRows}
    /\ strategy_type \in StrategyIds
    /\ strategy_params \in RequestedParams(strategy_type)
    /\ initial_cash = 100 * CashUnits
    /\ commission = 0

\* ------------------------------------------------------ the steps of run_backtest

Raise(e) ==
    /\ pc' = "raised"
    /\ error' = e
    /\ UNCHANGED result

Return(r) ==
    /\ pc' = "returned"
    /\ result' = r
    /\ UNCHANGED error

\* lines 33-44
ValidateInputs ==
    /\ pc = "validate"
    /\ IF ValidationErrorOf(df) # NoError
       THEN Raise(ValidationErrorOf(df))
       ELSE pc' = "adjust" /\ UNCHANGED <<error, result>>
    /\ UNCHANGED <<call, signal, df, strategy_type, strategy_params, initial_cash, commission,
                   adjusted_params, broker, position, bar, trades_list,
                   daily_positions, entries, faults>>

\* the adjustment written into the caller's mapping: no copy at line 47
AdjustParameters_NoCopy ==
    /\ pc = "adjust"
    /\ adjusted_params' = AdjustParams(strategy_type, strategy_params, df.rows)
    /\ strategy_params' = adjusted_params'
    /\ pc' = "setup"
    /\ UNCHANGED <<call, signal, df, strategy_type, initial_cash, commission,
                   error, result, broker, position, bar, trades_list,
                   daily_positions, entries, faults>>

\* lines 46-86
AdjustParameters ==
    /\ pc = "adjust"
    /\ adjusted_params' = AdjustParams(strategy_type, strategy_params, df.rows)
    /\ pc' = "setup"
    /\ UNCHANGED <<call, signal, df, strategy_type, strategy_params, initial_cash, commission,
                   error, result, broker, position, bar, trades_list,
                   daily_positions, entries, faults>>

\* the lookup result never tested
LookupError_Unchecked(type) == NoError

\* line 99-101: STRATEGY_MAP.get(strategy_type), the error when it is None
LookupError(type) ==
    IF type \in STRATEGY_MAP THEN NoError
    ELSE ValueError("Unknown strategy type", <<type>>)

\* lines 88-109
SetUpCerebro ==
    /\ pc = "setup"
    /\ broker' = [cash |-> initial_cash]
    /\ IF LookupError(strategy_type) # NoError
       THEN Raise(LookupError(strategy_type))
       ELSE pc' = "run" /\ UNCHANGED <<error, result>>
    /\ UNCHANGED <<call, signal, df, strategy_type, strategy_params, initial_cash, commission,
                   adjusted_params, position, bar, trades_list,
                   daily_positions, entries, faults>>

\* cerebro.run(), one bar, with equity points recorded only once a position
\* has been opened
RunBar_PointsOnceTrading ==
    /\ pc = "run"
    /\ bar < df.rows
    /\ \E sig \in Signals(Close(df.shape, bar + 1)), dist \in StopDists :
         LET i == bar + 1
             close == Close(df.shape, i)
             after == AfterSignal(strategy_type, broker.cash, position, sig, dist, i, close)
         IN  /\ signal' = sig
             /\ broker' = [cash |-> after.cash]
             /\ position' = after.pos
             /\ entries' = entries + after.opened
             /\ trades_list' = trades_list \o after.closed
             /\ daily_positions' =
                   IF entries + after.opened = 0 THEN daily_positions
                   ELSE Append(daily_positions,
                               EquityPoint(i, after.cash, after.pos.size, close))
             /\ bar' = i
    /\ UNCHANGED <<call, pc, df, strategy_type, strategy_params, initial_cash, commission,
                   adjusted_params, error, result, faults>>

\* cerebro.run(), one bar
RunBar ==
    /\ pc = "run"
    /\ bar < df.rows
    /\ \E sig \in Signals(Close(df.shape, bar + 1)), dist \in StopDists :
         LET i == bar + 1
             close == Close(df.shape, i)
             after == AfterSignal(strategy_type, broker.cash, position, sig, dist, i, close)
         IN  /\ signal' = sig
             /\ broker' = [cash |-> after.cash]
             /\ position' = after.pos
             /\ entries' = entries + after.opened
             /\ trades_list' = trades_list \o after.closed
             /\ daily_positions' = Append(daily_positions,
                                          EquityPoint(i, after.cash, after.pos.size, close))
             /\ bar' = i
    /\ UNCHANGED <<call, pc, df, strategy_type, strategy_params, initial_cash, commission,
                   adjusted_params, error, result, faults>>

\* the failed run's lists kept in the returned dictionary
OnRunException_KeepsLists(cash0, trades, curve) ==
    Return([DegradedResult(cash0) EXCEPT !.trades = trades, !.daily_positions = curve])

\* what run_backtest does with an exception of cerebro.run(): lines 115-126
OnRunException(cash0, trades, curve) == Return(DegradedResult(cash0))

\* cerebro.run() raises, at any bar
RunFails ==
    /\ pc = "run"
    /\ faults' = faults \cup {"run"}
    /\ OnRunException(initial_cash, trades_list, daily_positions)
    /\ UNCHANGED <<call, signal, df, strategy_type, strategy_params, initial_cash, commission,
                   adjusted_params, broker, position, bar, trades_list,
                   daily_positions, entries>>

LastClose == IF bar = 0 THEN 0 ELSE Close(df.shape, bar)

\* the faults among the analyzers' outcomes
MetricFaults(sa, da, ta) ==
    (IF sa.ok THEN {} ELSE {"sharpe"}) \cup (IF da.ok THEN {} ELSE {"drawdown"})
        \cup (IF ta.ok THEN {} ELSE {"trades"})

\* one try block around all of lines 131-181
OnMetrics_OneTryBlock(final_value, cash0, sa, da, ta, trades, curve) ==
    IF MetricFaults(sa, da, ta) # {}
    THEN Return(DegradedResult(cash0))
    ELSE Return(NormalResult(final_value, cash0, ExtractSharpe(sa), ExtractDrawdown(da),
                             trades_analysis(ta, trades), trades, curve))

\* what lines 131-181 return for the analyzers' outcomes
OnMetrics(final_value, cash0, sa, da, ta, trades, curve) ==
    Return(NormalResult(final_value, cash0, ExtractSharpe(sa), ExtractDrawdown(da),
                        trades_analysis(ta, trades), trades, curve))

\* lines 128-181, once cerebro.run() has returned
ExtractMetrics ==
    /\ pc = "run"
    /\ bar = df.rows
    /\ LET final_value == getvalue(broker.cash, position.size, LastClose)
       IN  IF initial_cash = 0
           THEN Raise(ZeroDivisionError) /\ UNCHANGED faults
           ELSE \E sa \in SharpeAnalyses, da \in DrawdownAnalyses, ta \in TradeAnalyses :
                  /\ faults' = faults \cup MetricFaults(sa, da, ta)
                  /\ OnMetrics(final_value, initial_cash, sa, da, ta,
                               trades_list, daily_positions)
    /\ UNCHANGED <<call, signal, df, strategy_type, strategy_params, initial_cash, commission,
                   adjusted_params, broker, position, bar, trades_list,
                   daily_positions, entries>>

Next ==
    \/ ValidateInputs
    \/ AdjustParameters
    \/ SetUpCerebro
    \/ RunBar
    \/ RunFails
    \/ ExtractMetrics

Spec == Init /\ [][Next]_vars

\* the input checks and the parameter adjustment alone, over many lengths
NextAdjust ==
    \/ ValidateInputs
    \/ AdjustParameters

SpecAdjust == InitAdjust /\ [][NextAdjust]_vars

\* ------------------------------------------------------ direct calls of the helpers

Pending(op, args) == [op |-> op, args |-> args, out |-> 0, done |-> FALSE]

\* broker values and cash in hundredths, prices and stops in units
SizerValues == {-15000, 15000, 10000000} \cup {10000 * k : k \in 0..MaxShares}
SizerCash == {-5000000, -5000, 0, 5000, 5000000}
SizerPrices == (0..MaxPrice) \cup {100}
SizerStops == (0..MaxPrice) \cup {95, 100}
SizerCalls ==
    {Pending("calculate_position_size",
             [value |-> v, cash |-> c, price |-> p, stop_price |-> s]) :
         v \in SizerValues, c \in SizerCash, p \in SizerPrices, s \in SizerStops}

Floats(values) == [i \in 1..Len(values) |-> Float(values[i])]
EquityPoints == {NaN} \cup {Float(v) : v \in 1..MaxEquity}
EquityCurves ==
    UNION {[1..n -> EquityPoints] : n \in 0..MaxCurve}
        \cup {Floats(<<100, 110, 120, 130>>), Floats(<<100, 120, 80, 90, 150, 130>>),
              Floats(<<100, 110, 105, 90, 95>>),
              <<Float(100), NaN, Float(120), Float(90), NaN, Float(80)>>}
DrawdownCalls == {Pending("max_drawdown", c) : c \in EquityCurves}

\* returns in hundredths
ReturnPoints == {NaN, PosInf} \cup {Float(v) : v \in -1..MaxReturn}
ReturnSeries == UNION {[1..n -> ReturnPoints] : n \in 0..MaxReturns}
SharpeCalls == {Pending("sharpe_ratio", r) : r \in ReturnSeries}

InitCalls ==
    /\ Idle
    /\ pc = "call"
    /\ df = NoneFrame
    /\ strategy_type = "sma_cross"
    /\ strategy_params = EmptyMap
    /\ initial_cash = 100 * CashUnits
    /\ commission = 0
    /\ call \in SizerCalls \cup DrawdownCalls \cup SharpeCalls

Answer(out) ==
    /\ call' = [call EXCEPT !.out = out, !.done = TRUE]
    /\ UNCHANGED <<pc, df, strategy_type, strategy_params, initial_cash, commission,
                   adjusted_params, error, result, broker, position, bar, trades_list,
                   daily_positions, entries, faults, signal>>

SizePosition ==
    /\ pc = "call"
    /\ call.op = "calculate_position_size"
    /\ ~call.done
    /\ Answer(calculate_position_size(call.args.value, call.args.cash,
                                       call.args.price, call.args.stop_price))

ComputeMaxDrawdown ==
    /\ pc = "call"
    /\ call.op = "max_drawdown"
    /\ ~call.done
    /\ Answer(max_drawdown(call.args))

ComputeSharpeRatio ==
    /\ pc = "call"
    /\ call.op = "sharpe_ratio"
    /\ ~call.done
    /\ Answer(sharpe_ratio(call.args))

NextCalls ==
    \/ SizePosition
    \/ ComputeMaxDrawdown
    \/ ComputeSharpeRatio

SpecCalls == InitCalls /\ [][NextCalls]_vars

\* runs of run_backtest and direct calls of the helpers together
InitMetrics == Init \/ InitCalls

NextMetrics ==
    \/ ValidateInputs
    \/ AdjustParameters
    \/ SetUpCerebro
    \/ RunBar
    \/ RunFails
    \/ ExtractMetrics
    \/ SizePosition
    \/ ComputeMaxDrawdown
    \/ ComputeSharpeRatio

SpecMetrics == InitMetrics /\ [][NextMetrics]_vars

TypeOK ==
    /\ pc \in {"validate", "adjust", "setup", "run", "returned", "raised", "call"}
    /\ bar \in 0..df.rows
    /\ (pc = "returned") = (result # NoResult)
    /\ (pc = "raised") = (error # NoError)

\* ====================================================== the claims

DataChecksPass == ~df.none /\ df.rows >= MinRows /\ AllColumns \subseteq df.columns
Validated == pc # "validate"
Returned == pc = "returned"
Degraded == Returned /\ "run" \in faults
Normal == Returned /\ "run" \notin faults
MissingSome == \E col \in AllColumns : col \notin df.columns
IsZero(r) == RatEq(r, Rat(0, 1))

\* C1: the input checks are applied in the order empty, missing columns, fewer
\* than 5 rows, and the first that fails decides the error: an empty series
\* (None, no rows or no columns: df.empty) is rejected as empty whatever else
\* is wrong, a non-empty series that misses a
\* column is rejected for its columns even when it is also shorter than 5 rows,
\* and only a series with all columns is rejected for its rows.
C1_ValidationOrder ==
    Validated =>
      /\ (df.none \/ df.rows = 0 \/ df.columns = {}) =>
            (pc = "raised" /\ error.msg = "DataFrame is empty")
      /\ (~df.none /\ df.rows > 0 /\ df.columns # {} /\ MissingSome) =>
            /\ pc = "raised"
            /\ error.msg = "Missing required columns"
            /\ \A col \in AllColumns :
                 (col \notin df.columns) <=> (\E i \in 1..Len(error.arg) : error.arg[i] = col)
      /\ (~df.none /\ df.rows > 0 /\ ~MissingSome /\ df.rows < MinRows) =>
            (pc = "raised" /\ error.msg = "DataFrame must have at least 5 rows for backtest")

\* a series of 1..4 rows without Volume has been rejected for its columns
C1_Witness ==
    /\ pc = "raised"
    /\ df.rows \in 1..4
    /\ "Volume" \notin df.columns
    /\ error.msg = "Missing required columns"

\* C2: a validation failure (empty series, missing column, fewer than 5 rows,
\* unknown strategy identifier) always leaves run_backtest as an error and never
\* as a result; an unknown identifier on a series that passes the data checks
\* raises a ValueError that names the identifier.
C2_ValidationPropagates ==
    /\ (pc \in {"run", "returned"}) => (DataChecksPass /\ strategy_type \in STRATEGY_MAP)
    /\ (pc \notin {"validate", "adjust", "setup"} /\ ~DataChecksPass) =>
          (pc = "raised" /\ error.exc = "ValueError" /\ result = NoResult)
    /\ (pc \notin {"validate", "adjust", "setup"} /\ DataChecksPass
          /\ strategy_type \notin STRATEGY_MAP) =>
          /\ pc = "raised"
          /\ result = NoResult
          /\ error.exc = "ValueError"
          /\ error.msg = "Unknown strategy type"
          /\ error.arg = <<strategy_type>>

\* the identifier SMA_Cross has been rejected by name on a valid series
C2_Witness ==
    /\ pc = "raised"
    /\ DataChecksPass
    /\ strategy_type = "SMA_Cross"
    /\ error.arg = <<"SMA_Cross">>

\* C3: when an exception of the bar replay is caught, run_backtest returns the
\* canonical degraded result (final_cash = initial_cash, total_return 0, sharpe
\* None, max_drawdown 0, no trades, no daily positions, win_rate 0,
\* avg_trade_return 0), with the eight keys every returned result has, and
\* nothing of the failed run's trade list or equity curve in it.
C3_DegradedResult ==
    /\ Returned => DOMAIN result = ResultKeys
    /\ ("run" \in faults) =>
          /\ Returned
          /\ result.final_cash = initial_cash
          /\ IsZero(result.total_return)
          /\ result.sharpe = None
          /\ IsZero(result.max_drawdown)
          /\ result.trades = <<>>
          /\ result.daily_positions = <<>>
          /\ IsZero(result.win_rate)
          /\ IsZero(result.avg_trade_return)

\* the replay failed after it had recorded a trade and equity points
C3_Witness ==
    /\ Degraded
    /\ trades_list # <<>>
    /\ daily_positions # <<>>
    /\ broker.cash # initial_cash

MetricFailed == faults \cap {"sharpe", "drawdown", "trades"} # {}

\* C4 as claimed: a failure during metrics computation, after a successful
\* replay, turns the whole result into the canonical degraded result.
C4_Original ==
    (Returned /\ MetricFailed) =>
        /\ result.final_cash = initial_cash
        /\ result.trades = <<>>
        /\ result.daily_positions = <<>>

\* C4 as amended: a failure while reading an analyzer, after a successful
\* replay, defaults that metric alone (sharpe None, max_drawdown 0, win_rate and
\* avg_trade_return 0); the result keeps the run's final value, trades and
\* equity curve.
C4_MetricLocalDefault ==
    Normal =>
        /\ result.final_cash = getvalue(broker.cash, position.size, LastClose)
        /\ result.trades = trades_list
        /\ result.daily_positions = daily_positions
        /\ Len(result.daily_positions) = df.rows
        /\ ("sharpe" \in faults) => result.sharpe = None
        /\ ("drawdown" \in faults) => IsZero(result.max_drawdown)
        /\ ("trades" \in faults) =>
              (IsZero(result.win_rate) /\ IsZero(result.avg_trade_return))
        /\ ("trades" \notin faults /\ \E i \in 1..Len(trades_list) : trades_list[i].pnl > 0) =>
              ~IsZero(result.win_rate)

\* the sharpe analyzer failed after a replay with a winning trade, and the
\* result still carries the trade, the curve and a final value other than the
\* initial cash
C4_Witness ==
    /\ Normal
    /\ faults = {"sharpe"}
    /\ result.trades # <<>>
    /\ result.final_cash # initial_cash
    /\ ~IsZero(result.win_rate)

\* C5 as claimed: in every returned result, total_return is the quotient
\* (final_cash - initial_cash) / initial_cash of the values of that result.
C5_Original ==
    Returned =>
        RatEq(result.total_return, Rat(result.final_cash - initial_cash, initial_cash))

\* C5 as amended: in every result returned for initial_cash # 0, total_return
\* is that quotient; for initial_cash = 0 the quotient does not exist and the
\* only result returned is the degraded one, total_return 0 and final_cash 0.
C5_TotalReturn ==
    Returned =>
        IF initial_cash # 0
        THEN RatEq(result.total_return,
                   Rat(result.final_cash - initial_cash, initial_cash))
        ELSE Degraded /\ IsZero(result.total_return) /\ result.final_cash = 0

\* a normal result whose final value differs from the initial cash
C5_Witness ==
    /\ Normal
    /\ result.final_cash # initial_cash
    /\ ~IsZero(result.total_return)

OpenAtEnd == Normal /\ position.size > 0

\* C6 as claimed: when the run ends with a position open, final_cash is the
\* broker's cash alone, without the value of the open position.
C6_Original ==
    OpenAtEnd => result.final_cash = broker.cash

\* C6 as amended: final_cash is the broker's portfolio value, the cash plus
\* the open position at the last close; it equals the equity of the last
\* EquityPoint, so with a position open it exceeds the cash.
C6_FinalCashIsValue ==
    Normal =>
        /\ result.final_cash = broker.cash + position.size * LastClose * 100
        /\ result.final_cash = daily_positions[Len(daily_positions)].equity
        /\ (position.size > 0) => result.final_cash > broker.cash

\* a run has ended with a position open
C6_Witness ==
    /\ OpenAtEnd
    /\ daily_positions[Len(daily_positions)].market_value > 0

\* C7: with initial_cash <= 0, a valid series and a supported variant,
\* run_backtest raises nothing to the caller.
C7_Original ==
    (initial_cash <= 0 /\ DataChecksPass /\ strategy_type \in STRATEGY_MAP) =>
        pc # "raised"

Adjusted == pc = "setup"
Requested(key, default) == Get(strategy_params, key, default)
data_len == df.rows

\* C8 as claimed: for donchian_breakout the adjusted entry_period is
\* max(2, min(requested, n div 3)) and the adjusted exit_period is
\* max(2, min(requested, n div 4)), both at least 2.
C8_Original ==
    (Adjusted /\ strategy_type = "donchian_breakout") =>
        /\ adjusted_params["entry_period"]
             = Max(2, Min(Requested("entry_period", DefaultEntry), data_len \div 3))
        /\ adjusted_params["exit_period"]
             = Max(2, Min(Requested("exit_period", DefaultExit), data_len \div 4))

\* C8 as amended: the adjusted entry_period is min(requested, max(2, n div 3))
\* and the adjusted exit_period is min(requested, max(2, n div 4)): the claimed
\* values when the requested value is at least 2, and the requested value
\* itself when it is below 2.
C8_DonchianPeriods ==
    (Adjusted /\ strategy_type = "donchian_breakout") =>
        LET entry == Requested("entry_period", DefaultEntry)
            exit == Requested("exit_period", DefaultExit)
        IN  /\ adjusted_params["entry_period"]
                 = IF entry >= 2 THEN Max(2, Min(entry, data_len \div 3)) ELSE entry
            /\ adjusted_params["exit_period"]
                 = IF exit >= 2 THEN Max(2, Min(exit, data_len \div 4)) ELSE exit

\* a requested entry_period of 1 has come through the adjustment as 1, and a
\* default exit_period has been capped at the floor 2 on a short series
C8_Witness ==
    /\ Adjusted
    /\ strategy_type = "donchian_breakout"
    /\ Requested("entry_period", DefaultEntry) = 1
    /\ adjusted_params["entry_period"] = 1
    /\ "exit_period" \notin DOMAIN strategy_params
    /\ data_len \div 4 < 2
    /\ adjusted_params["exit_period"] = 2

\* C9 as claimed: for momentum the adjusted lookback is
\* max(5, min(requested, n div 2)), at least 5.
C9_Original ==
    (Adjusted /\ strategy_type = "momentum") =>
        adjusted_params["lookback"]
          = Max(5, Min(Requested("lookback", DefaultLookback), data_len \div 2))

\* C9 as amended: the adjusted lookback is min(requested, max(5, n div 2)): the
\* claimed value when the requested value is at least 5, and the requested
\* value itself when it is below 5.
C9_MomentumLookback ==
    (Adjusted /\ strategy_type = "momentum") =>
        LET lookback == Requested("lookback", DefaultLookback)
        IN  adjusted_params["lookback"]
              = IF lookback >= 5 THEN Max(5, Min(lookback, data_len \div 2)) ELSE lookback

\* a requested lookback of 3 has come through the adjustment as 3
C9_Witness ==
    /\ Adjusted
    /\ strategy_type = "momentum"
    /\ Requested("lookback", DefaultLookback) = 3
    /\ adjusted_params["lookback"] = 3

\* C10: for sma_cross the adjusted parameters satisfy 3 <= slow and
\* 2 <= fast < slow, with slow = max(3, min(requested slow, n div 3)) and
\* fast = max(2, min(requested fast, slow - 1)) for that adjusted slow.
C10_SmaCrossOrdering ==
    (Adjusted /\ strategy_type = "sma_cross") =>
        LET slow == adjusted_params["slow"]
            fast == adjusted_params["fast"]
        IN  /\ 3 <= slow
            /\ 2 <= fast
            /\ fast < slow
            /\ slow = Max(3, Min(Requested("slow", DefaultSlow), data_len \div 3))
            /\ fast = Max(2, Min(Requested("fast", DefaultFast), slow - 1))

\* a requested fast at or above the requested slow, on a series long enough
\* for the requested slow, has been brought to slow - 1
C10_Witness ==
    /\ Adjusted
    /\ strategy_type = "sma_cross"
    /\ "fast" \in DOMAIN strategy_params
    /\ "slow" \in DOMAIN strategy_params
    /\ strategy_params["slow"] >= 4
    /\ strategy_params["fast"] >= strategy_params["slow"]
    /\ adjusted_params["slow"] = strategy_params["slow"]
    /\ adjusted_params["fast"] = adjusted_params["slow"] - 1

\* the adjusted parameters that are windows over the series, with the divisor
\* of the fraction of the length and the floor of the cap of each
Windows(type) ==
    CASE type = "sma_cross" ->
           {[key |-> "slow", div |-> 3, floor |-> 3], [key |-> "atr_period", div |-> 4, floor |-> 2]}
      [] type = "donchian_breakout" ->
           {[key |-> "entry_period", div |-> 3, floor |-> 2],
            [key |-> "exit_period", div |-> 4, floor |-> 2],
            [key |-> "atr_period", div |-> 4, floor |-> 2]}
      [] type = "momentum" ->
           {[key |-> "lookback", div |-> 2, floor |-> 5], [key |-> "atr_period", div |-> 4, floor |-> 2]}
      [] OTHER -> {}

\* C11 as claimed: after the adjustment every window parameter is at most its
\* fraction of the series length: slow and entry_period at most n div 3,
\* exit_period and atr_period at most n div 4, lookback at most n div 2.
C11_Original ==
    Adjusted =>
        \A w \in Windows(strategy_type) : adjusted_params[w.key] <= data_len \div w.div

\* C11 as amended: after the adjustment every window parameter is at most the
\* larger of its fraction of the series length and the floor of its cap (3 for
\* slow, 2 for entry_period, exit_period and atr_period, 5 for lookback), so it
\* never exceeds the series length; it is within the fraction itself once the
\* fraction has reached that floor.
C11_WindowCaps ==
    Adjusted =>
        \A w \in Windows(strategy_type) :
            /\ adjusted_params[w.key] <= Max(w.floor, data_len \div w.div)
            /\ adjusted_params[w.key] <= data_len
            /\ (data_len \div w.div >= w.floor) =>
                   adjusted_params[w.key] <= data_len \div w.div

\* on a series of 5 rows the adjusted slow is 3, above 5 div 3, and on a long
\* series a default lookback has been cut to half the length
C11_Witness ==
    /\ Adjusted
    /\ \/ /\ strategy_type = "sma_cross"
          /\ data_len = 5
          /\ adjusted_params["slow"] = 3
       \/ /\ strategy_type = "momentum"
          /\ "lookback" \notin DOMAIN strategy_params
          /\ data_len = 30
          /\ adjusted_params["lookback"] = 15

\* ------------------------------------------------------ the position sizer

Sized == call.op = "calculate_position_size" /\ call.done
risk_of(args) == Abs(args.price - args.stop_price)

\* the quotient a / b (b > 0) rounded toward zero, as int() rounds
TowardZero(a, b) == IF a >= 0 THEN a \div b ELSE -((-a) \div b)

\* C12 (as stated): the sizer returns 0 when price == stop and otherwise
\* min(floor(equity * 0.01 / |price - stop|), floor(cash / price)), for every
\* equity, cash, price and stop (here: every price other than 0, where the
\* second quotient is defined).
C12_Original ==
    (Sized /\ call.args.price # 0) =>
        call.out = IF risk_of(call.args) = 0 THEN 0
                   ELSE Min(call.args.value \div (10000 * risk_of(call.args)),
                            call.args.cash \div (100 * call.args.price))

\* C12 (amended): the sizer returns 0 when price == stop or price == 0, and
\* otherwise min(q1, q2) where q1 = equity * 0.01 / |price - stop| and
\* q2 = cash / price are each rounded toward zero; with equity >= 0 and
\* cash >= 0 that is the floor formula, and equity=100000, cash=50000,
\* price=100, stop=95 gives 200.
C12_SizerFormula ==
    Sized =>
        /\ (risk_of(call.args) = 0 \/ call.args.price = 0) => call.out = 0
        /\ (risk_of(call.args) # 0 /\ call.args.price # 0) =>
              /\ call.out = Min(TowardZero(call.args.value, 10000 * risk_of(call.args)),
                                TowardZero(call.args.cash, 100 * call.args.price))
              /\ (call.args.value >= 0 /\ call.args.cash >= 0) =>
                    call.out = Min(call.args.value \div (10000 * risk_of(call.args)),
                                   call.args.cash \div (100 * call.args.price))
        /\ call.args = [value |-> 10000000, cash |-> 5000000, price |-> 100, stop_price |-> 95]
              => call.out = 200

C12_Witness ==
    /\ Sized
    /\ \/ call.args = [value |-> 10000000, cash |-> 5000000, price |-> 100, stop_price |-> 95]
          /\ call.out = 200
       \/ call.args = [value |-> 10000000, cash |-> -5000, price |-> 100, stop_price |-> 95]
          /\ call.out = 0
       \/ call.args = [value |-> 30000, cash |-> 5000000, price |-> 0, stop_price |-> 1]
          /\ call.out = 0

\* C13 (as stated): for every input, negative or zero cash, negative equity
\* and price == 0 included, the sizer returns a share quantity >= 0.
C13_Original == Sized => call.out >= 0

\* ------------------------------------------------------ the metrics of a result

\* C14: max_drawdown in every returned result is <= 0, in normal and degraded
\* runs alike, whether the drawdown analyzer reports a positive percentage,
\* zero or a negative percentage, or fails.
C14_DrawdownNonPositive == Returned => RatLeqZero(result.max_drawdown)

\* a normal run whose analyzer reported the drawdown as the positive 25 percent
C14_Witness ==
    /\ Normal
    /\ "drawdown" \notin faults
    /\ RatEq(result.max_drawdown, Rat(-1, 4))

\* ------------------------------------------------------ max_drawdown of a curve

Measured == call.op = "max_drawdown" /\ call.done

\* the largest of the first i points
PeakAt(points, i) ==
    CHOOSE m \in {points[j].value : j \in 1..i} :
        \A j \in 1..i : points[j].value <= m

\* the drawdown at point i: (equity - runningPeak) / runningPeak
DrawdownAt(points, i) == Rat(points[i].value - PeakAt(points, i), PeakAt(points, i))

NeverBelowPeak(points) ==
    \A i \in 1..Len(points) : points[i].value >= PeakAt(points, i)

\* C15: for a non-empty curve of positive values max_drawdown is the minimum
\* over all points of (equity - runningPeak) / runningPeak; it is 0 exactly
\* when the curve never falls below its running peak ([100,110,120,130] gives
\* 0, [100,120,80,90,150,130] gives -1/3); NaN points are skipped, the result
\* being that of the remaining points; an empty curve gives None.
C15_MaxDrawdown ==
    Measured =>
        LET points == Valid(call.args)
        IN  /\ call.args = <<>> => call.out = NoValue
            /\ points # <<>> =>
                  /\ ~call.out.none
                  /\ \A i \in 1..Len(points) :
                        ~RatLess(DrawdownAt(points, i), call.out.value)
                  /\ \E i \in 1..Len(points) :
                        RatEq(DrawdownAt(points, i), call.out.value)
                  /\ IsZero(call.out.value) <=> NeverBelowPeak(points)
            /\ call.args = Floats(<<100, 110, 120, 130>>) => IsZero(call.out.value)
            /\ call.args = Floats(<<100, 120, 80, 90, 150, 130>>)
                  => RatEq(call.out.value, Rat(-1, 3))

C15_Witness ==
    /\ Measured
    /\ \/ call.args = Floats(<<100, 120, 80, 90, 150, 130>>)
          /\ RatEq(call.out.value, Rat(-1, 3))
       \/ call.args = <<Float(100), NaN, Float(120), Float(90), NaN, Float(80)>>
          /\ RatEq(call.out.value, Rat(-1, 3))
       \/ call.args = <<Float(2), Float(3), NaN, Float(1)>>
          /\ RatEq(call.out.value, Rat(-2, 3))

\* ------------------------------------------------------ the sharpe value

Rated == call.op = "sharpe_ratio" /\ call.done
Finite(v) == v.kind = "float"
AllEqual(points) == \A i, j \in 1..Len(points) : points[i] = points[j]

\* C16: the sharpe value is None or a finite number, never NaN or an
\* infinity: in a returned result, where it is None when the analyzer gives
\* no value, and from sharpe_ratio, where it is None for fewer than 2 returns,
\* for returns of zero sample standard deviation ([0.01,0.01,0.01]) and for
\* a ratio that is NaN or infinite, and a finite number otherwise.
C16_SharpeNoneOrFinite ==
    /\ Returned =>
          /\ result.sharpe = None \/ Finite(result.sharpe)
          /\ ("sharpe" \in faults \/ Degraded) => result.sharpe = None
    /\ Rated =>
          LET points == NotNaN(call.args)
          IN  /\ call.out = None \/ Finite(call.out)
              /\ Len(points) < 2 => call.out = None
              /\ AllEqual(points) => call.out = None
              /\ (\E i \in 1..Len(points) : ~Finite(points[i])) => call.out = None
              /\ (Len(points) >= 2 /\ ~AllEqual(points)
                    /\ \A i \in 1..Len(points) : Finite(points[i])) => Finite(call.out)
              /\ call.args = Floats(<<1, 1, 1>>) => call.out = None

C16_Witness ==
    \/ Rated /\ call.args = Floats(<<1, 1, 1>>) /\ call.out = None
    \/ Rated /\ call.args = <<Float(1), PosInf, Float(2)>> /\ call.out = None
    \/ Normal /\ "sharpe" \in faults /\ result.sharpe = None

\* ------------------------------------------------------ win_rate

InUnitInterval(r) == r.den > 0 /\ 0 <= r.num /\ r.num <= r.den

InBarOrder(curve) == \A k \in 1..Len(curve) : curve[k].bar = k

IsLong == position.size > 0
IsFlat == position = Flat
BarStep == pc = "run" /\ bar' = bar + 1

\* the quantity the sizer gives for the signal of the bar just replayed
SizedFor(sig) ==
    calculate_position_size(getvalue(broker.cash, 0, Close(df.shape, bar + 1)), broker.cash,
                            Close(df.shape, bar + 1), sig.stop)

Untouched ==
    /\ position'.size = position.size
    /\ broker' = broker
    /\ entries' = entries
    /\ trades_list' = trades_list

NoOverlap(trades) ==
    /\ \A k \in 1..Len(trades) : trades[k].entry_bar <= trades[k].exit_bar
    /\ \A k \in 2..Len(trades) : trades[k].entry_bar >= trades[k - 1].exit_bar

\* C24: the trade log holds exactly the closed positions: a Trade is appended
\* only on a step from Long to Flat (and on each such step), never on entry
\* and never at the end of the series, so entries minus trades is 1 when Long
\* and 0 when Flat; trades are in time order and do not overlap; a recorded
\* Trade is never changed; the result carries the log as it stands.
C24_TradeLog ==
    [][/\ Len(trades_list') >= Len(trades_list)
       /\ SubSeq(trades_list', 1, Len(trades_list)) = trades_list
       /\ Len(trades_list') > Len(trades_list) =>
             /\ Len(trades_list') = Len(trades_list) + 1
             /\ BarStep /\ IsLong /\ IsFlat'
             /\ trades_list'[Len(trades_list')].entry_bar = position.entry_bar
             /\ trades_list'[Len(trades_list')].exit_bar = bar'
       /\ (IsLong /\ IsFlat') => Len(trades_list') = Len(trades_list) + 1
       /\ entries' - Len(trades_list') = (IF IsLong' THEN 1 ELSE 0)
       /\ NoOverlap(trades_list')
       /\ (pc' = "returned" /\ "run" \notin faults') =>
             (result'.trades = trades_list /\ NoOverlap(result'.trades))]_vars

\* a run that closed two positions and ended with a third one open
C24_Witness ==
    /\ Normal
    /\ IsLong
    /\ entries = 3
    /\ Len(result.trades) = 2

\* ------------------------------------------------------ the trailing stop

SamePosition == IsLong /\ IsLong' /\ position'.entry_bar = position.entry_bar

C26_InputsUntouched ==
    [][/\ strategy_params' = strategy_params
       /\ df' = df
       /\ (pc = "adjust" /\ pc' = "setup") =>
             adjusted_params' = AdjustParams(strategy_type, strategy_params', df'.rows)]_vars

\* a call has returned with adjusted values that differ from the requested ones
C26_Witness ==
    /\ Returned
    /\ strategy_params = [fast |-> 5, slow |-> 3]
    /\ adjusted_params # strategy_params
    /\ adjusted_params.slow # strategy_params.slow \/ adjusted_params.fast # strategy_params.fast

====
